---------------------------- MODULE Spec2Model ----------------------------
(***************************************************************************)
(* Model of sui-dev-mcp's service (src/src/service.rs): the diagnostic     *)
(* scanner extract_build_output with parse_location, the test verdict      *)
(* classification, and the two tool handlers validate_project and          *)
(* format_project.                                                         *)
(*                                                                         *)
(* Text.  A Rust string is a sequence of tokens.  A token is a TLA+ string *)
(* that stands for the characters it spells; the literals the code         *)
(* searches for ("warning[", "error[", "Test failures", "Test result: OK") *)
(* and the marker are single tokens, and no other tokens spell one of them *)
(* when put side by side, so starts_with / contains / replace / find on    *)
(* the Rust string are the same questions on the token sequence.  The      *)
(* alphabet holds no '\r' and no '\t'.                                     *)
(*                                                                         *)
(* Option<T> is a sequence: << >> is None and <<x>> is Some(x).            *)
(***************************************************************************)
EXTENDS Integers, Sequences, FiniteSets, TLC

VARIABLES sc, inv, cfg

vars == <<sc, inv, cfg>>

-----------------------------------------------------------------------------
(* Bounds of the model                                                     *)

\* Segments (runs of one to four lines) per scanned input.
MaxSegs == 3

\* Segments per captured stderr stream of a subprocess in a validate call.
MaxProcSegs == 1

-----------------------------------------------------------------------------
(* Tokens                                                                  *)

NL == "\n"
SP == " "
MARK == "|-"                  \* the two box-drawing characters U+250C U+2500
ESC == "\\x1b[1m"             \* one ANSI SGR escape sequence
WPFX == "warning["
EPFX == "error["
TFAIL == "Test failures"
TOK == "Test result: OK"

Digits == {"0", "1", "2", "3", "4", "5", "6", "7", "8", "9"}

\* char::is_whitespace, over the alphabet
IsWs(t) == t \in {SP, NL}

-----------------------------------------------------------------------------
(* String primitives of the standard library, as the code uses them        *)

\* str::starts_with
StartsWith(s, p) == Len(s) >= Len(p) /\ SubSeq(s, 1, Len(p)) = p

\* str::contains, for a one-token pattern
Contains(s, t) == \E i \in 1..Len(s) : s[i] = t

\* str::find, for a one-token pattern: Some(index of the first occurrence)
Find(s, t) ==
    IF Contains(s, t)
    THEN <<CHOOSE i \in 1..Len(s) : s[i] = t /\ \A j \in 1..(i - 1) : s[j] # t>>
    ELSE << >>

\* str::replace(t, ""), for a one-token pattern: every occurrence is removed
RemoveAll(s, t) == SelectSeq(s, LAMBDA x : x # t)

RECURSIVE TrimStart(_)
TrimStart(s) ==
    IF s # << >> /\ IsWs(Head(s)) THEN TrimStart(Tail(s)) ELSE s

RECURSIVE TrimEnd(_)
TrimEnd(s) ==
    IF s # << >> /\ IsWs(s[Len(s)]) THEN TrimEnd(SubSeq(s, 1, Len(s) - 1)) ELSE s

\* str::trim
Trim(s) == TrimEnd(TrimStart(s))

\* str::split(c): the fields between the occurrences of c, always at least one
RECURSIVE SplitAcc(_, _, _)
SplitAcc(s, c, cur) ==
    IF s = << >> THEN <<cur>>
    ELSE IF Head(s) = c THEN <<cur>> \o SplitAcc(Tail(s), c, << >>)
    ELSE SplitAcc(Tail(s), c, Append(cur, Head(s)))

Split(s, c) == SplitAcc(s, c, << >>)

\* str::lines: split at '\n'; a final empty piece is not a line
Lines(s) ==
    LET parts == Split(s, NL)
    IN  IF parts[Len(parts)] = << >> THEN SubSeq(parts, 1, Len(parts) - 1) ELSE parts

\* strip_ansi_escapes::strip followed by from_utf8_lossy: escape sequences removed
Strip(s) == RemoveAll(s, ESC)

RECURSIVE DropZeros(_)
DropZeros(d) ==
    IF Len(d) > 1 /\ Head(d) = "0" THEN DropZeros(Tail(d)) ELSE d

RECURSIVE DigitsLess(_, _)
\* a < b for two numerals of the same length
DigitsLess(a, b) ==
    LET val(x) == CHOOSE n \in 0..9 : ToString(n) = x
    IN  IF a = << >> THEN FALSE
        ELSE IF Head(a) # Head(b) THEN val(Head(a)) < val(Head(b))
        ELSE DigitsLess(Tail(a), Tail(b))

U32Max == <<"4", "2", "9", "4", "9", "6", "7", "2", "9", "5">>

\* Mutant of ParseU32: any run of digits is accepted, whatever its value
ParseU32NoRange(f) ==
    LET d == IF f # << >> /\ Head(f) = "+" THEN Tail(f) ELSE f
    IN  IF d = << >> \/ \E i \in 1..Len(d) : d[i] \notin Digits THEN << >>
        ELSE <<DropZeros(d)>>

\* str::parse::<u32>: an optional '+', then one or more decimal digits, value at
\* most u32::MAX.  The number is kept as its numeral without leading zeros.
ParseU32(f) ==
    LET d == IF f # << >> /\ Head(f) = "+" THEN Tail(f) ELSE f
        n == DropZeros(d)
    IN  IF d = << >> \/ \E i \in 1..Len(d) : d[i] \notin Digits THEN << >>
        ELSE IF Len(n) > Len(U32Max) THEN << >>
        ELSE IF Len(n) = Len(U32Max) /\ DigitsLess(U32Max, n) THEN << >>
        ELSE <<n>>

-----------------------------------------------------------------------------
(* parse_location                                                          *)

parse_location(val) ==
    IF StartsWith(Trim(val), <<MARK>>)
    THEN LET parts == Split(val, ":")
         IN  IF Len(parts) >= 3
             THEN LET l == ParseU32(parts[2])
                      c == ParseU32(parts[3])
                  IN  IF l = << >> \/ c = << >> THEN << >>
                      ELSE <<[file |-> Trim(RemoveAll(parts[1], MARK)),
                              line_number |-> l[1],
                              column_number |-> c[1]]>>
             ELSE << >>
    ELSE << >>

-----------------------------------------------------------------------------
(* extract_build_output, one line per step                                 *)

\* Mutant of MapInsert: an entry already present is kept
MapInsertKeepFirst(m, k, v) == m @@ (k :> v)

\* HashMap::insert: a later value for an equal key replaces the earlier one
MapInsert(m, k, v) == (k :> v) @@ m

\* line.split(']').next().unwrap().replace(prefix, "")
HeaderCode(line, prefix) == RemoveAll(Split(line, "]")[1], prefix)

\* struct LineNotice
LineNotice(loc, code) ==
    [file |-> loc.file, line_number |-> loc.line_number,
     column_number |-> loc.column_number, code |-> code]

\* The state on entry: empty maps, and the peekable iterator over the lines of the
\* stripped input, held as the lines and the number of them consumed so far.
\* mode is the place in the code: "Scanning" the outer loop, "InWarningBlock" and
\* "InErrorBlock" the inner loops, "Returned" after the outer loop, "Panicked" after
\* a failed expect.  emitted lists the insert calls in order.
ScanStart(input) ==
    [mode |-> "Scanning", lines |-> Lines(Strip(input)), pos |-> 0, block |-> << >>,
     code |-> << >>, location |-> << >>, warnings |-> << >>, errors |-> << >>,
     emitted |-> << >>]

\* lines.peek() / lines.next() would give None
Exhausted(st) == st.pos >= Len(st.lines)

\* Mutant of CloseBlock: a block still open at the end of the input is dropped
CloseBlockDropAtEnd(st, pos) ==
    IF pos = st.pos THEN [st EXCEPT !.mode = "Scanning"]
    ELSE IF st.location = << >>
    THEN [st EXCEPT !.mode = "Panicked", !.pos = pos]
    ELSE LET notice == LineNotice(st.location[1], st.code)
             body == Trim(st.block)
         IN  IF st.mode = "InWarningBlock"
             THEN [st EXCEPT !.mode = "Scanning", !.pos = pos,
                             !.warnings = MapInsert(@, notice, body),
                             !.emitted = Append(@, [sev |-> "warning", notice |-> notice, body |-> body])]
             ELSE [st EXCEPT !.mode = "Scanning", !.pos = pos,
                             !.errors = MapInsert(@, notice, body),
                             !.emitted = Append(@, [sev |-> "error", notice |-> notice, body |-> body])]

\* The end of an inner loop, pos lines being consumed: location.expect(..), then the insert
CloseBlock(st, pos) ==
    IF st.location = << >>
    THEN [st EXCEPT !.mode = "Panicked", !.pos = pos]
    ELSE LET notice == LineNotice(st.location[1], st.code)
             body == Trim(st.block)
         IN  IF st.mode = "InWarningBlock"
             THEN [st EXCEPT !.mode = "Scanning", !.pos = pos,
                             !.warnings = MapInsert(@, notice, body),
                             !.emitted = Append(@, [sev |-> "warning", notice |-> notice, body |-> body])]
             ELSE [st EXCEPT !.mode = "Scanning", !.pos = pos,
                             !.errors = MapInsert(@, notice, body),
                             !.emitted = Append(@, [sev |-> "error", notice |-> notice, body |-> body])]

\* Mutant of IsTerminator: a block of either kind ends at an empty line
IsTerminatorEmptyLine(mode, line) == line = << >>

\* Mutant of IsTerminator: the '=' test on the untrimmed line
IsTerminatorNoTrim(mode, line) ==
    IF mode = "InWarningBlock" THEN StartsWith(line, <<"=">>) ELSE line = << >>

\* Mutant of IsTerminator: an error block ends at a line of whitespace too
IsTerminatorBlank(mode, line) ==
    IF mode = "InWarningBlock" THEN StartsWith(Trim(line), <<"=">>) ELSE Trim(line) = << >>

\* Mutant of IsTerminator: a header line ends the open block as well
IsTerminatorOrHeader(mode, line) ==
    \/ StartsWith(line, <<WPFX>>) \/ StartsWith(line, <<EPFX>>)
    \/ IF mode = "InWarningBlock" THEN StartsWith(Trim(line), <<"=">>) ELSE line = << >>

\* The test that ends the inner loop on the peeked line
IsTerminator(mode, line) ==
    IF mode = "InWarningBlock" THEN StartsWith(Trim(line), <<"=">>) ELSE line = << >>

\* Mutant of ScanStep: every line that parses as a location replaces the one found
ScanStepLastLocation(st) ==
    IF st.mode = "Scanning"
    THEN IF Exhausted(st) THEN [st EXCEPT !.mode = "Returned"]
         ELSE LET line == st.lines[st.pos + 1]
              IN  IF StartsWith(line, <<WPFX>>)
                  THEN [st EXCEPT !.mode = "InWarningBlock", !.pos = @ + 1,
                                  !.block = Append(line, NL),
                                  !.code = HeaderCode(line, WPFX), !.location = << >>]
                  ELSE IF StartsWith(line, <<EPFX>>)
                  THEN [st EXCEPT !.mode = "InErrorBlock", !.pos = @ + 1,
                                  !.block = Append(line, NL),
                                  !.code = HeaderCode(line, EPFX), !.location = << >>]
                  ELSE [st EXCEPT !.pos = @ + 1]
    ELSE IF Exhausted(st) THEN CloseBlock(st, st.pos)
         ELSE LET next_line == st.lines[st.pos + 1]
              IN  IF IsTerminator(st.mode, next_line)
                  THEN CloseBlock(st, st.pos + 1)
                  ELSE [st EXCEPT !.pos = @ + 1,
                                  !.location = IF parse_location(next_line) # << >>
                                               THEN parse_location(next_line) ELSE @,
                                  !.block = (@ \o next_line) \o <<NL>>]

\* One turn of the outer loop head, or of an inner loop
ScanStep(st) ==
    IF st.mode = "Scanning"
    THEN IF Exhausted(st) THEN [st EXCEPT !.mode = "Returned"]
         ELSE LET line == st.lines[st.pos + 1]
              IN  IF StartsWith(line, <<WPFX>>)
                  THEN [st EXCEPT !.mode = "InWarningBlock", !.pos = @ + 1,
                                  !.block = Append(line, NL),
                                  !.code = HeaderCode(line, WPFX), !.location = << >>]
                  ELSE IF StartsWith(line, <<EPFX>>)
                  THEN [st EXCEPT !.mode = "InErrorBlock", !.pos = @ + 1,
                                  !.block = Append(line, NL),
                                  !.code = HeaderCode(line, EPFX), !.location = << >>]
                  ELSE [st EXCEPT !.pos = @ + 1]
    ELSE IF Exhausted(st) THEN CloseBlock(st, st.pos)
         ELSE LET next_line == st.lines[st.pos + 1]
              IN  IF IsTerminator(st.mode, next_line)
                  THEN CloseBlock(st, st.pos + 1)
                  ELSE [st EXCEPT !.pos = @ + 1,
                                  !.location = IF @ = << >> THEN parse_location(next_line) ELSE @,
                                  !.block = (@ \o next_line) \o <<NL>>]

ScanEnded(st) == st.mode \in {"Returned", "Panicked"}

RECURSIVE ScanRun(_)
ScanRun(st) == IF ScanEnded(st) THEN st ELSE ScanRun(ScanStep(st))

\* The whole function: the final state, whose mode tells a return from a panic
extract_build_output(input) == ScanRun(ScanStart(input))

-----------------------------------------------------------------------------
(* Inputs: captured stderr text, built from a pool of segments             *)

WHdrA == <<WPFX, "W1", "]", ":", SP, "a">>
WHdrB == <<WPFX, "W1", "]", ":", SP, "b">>
WHdrEsc == <<ESC, WPFX, "W2", "]", ESC>>
EHdrA == <<EPFX, "E1", "]", ":", SP, "a">>
EHdrB == <<EPFX, "E1", "]", ":", SP, "b">>
LocF == <<SP, SP, MARK, SP, "f.move", ":", "1", "0", ":", "5">>
LocG == <<MARK, SP, "g.move", ":", "2", ":", "0", "7", ":", SP>>
LocBad == <<SP, MARK, SP, "f.move", ":", "x", ":", "5">>
EqLine == <<SP, SP, "=", SP, "a">>
EmptyLine == << >>
BlankLine == <<SP, SP>>
TextLine == <<SP, "a", SP>>

\* A segment is a run of lines
SegPool ==
    { <<WHdrA, LocF, EqLine>>, <<WHdrB, LocF, EqLine>>,
      <<WHdrEsc, EmptyLine, LocBad, LocG>>,
      <<EHdrA, LocF, EmptyLine>>, <<EHdrB, TextLine, LocF>>,
      <<WHdrA>>, <<EHdrA>>, <<LocF>>, <<LocBad>>,
      <<EqLine>>, <<EmptyLine>>, <<BlankLine>> }

RECURSIVE Flatten(_)
Flatten(ss) == IF ss = << >> THEN << >> ELSE Head(ss) \o Flatten(Tail(ss))

\* The text of a run of lines: every line followed by '\n'
RECURSIVE Unlines(_)
Unlines(ls) == IF ls = << >> THEN << >> ELSE (Head(ls) \o <<NL>>) \o Unlines(Tail(ls))

\* The segments of the stderr a subprocess of validate leaves behind
ProcSegPool ==
    { <<WHdrA, LocF, EqLine>>,
      <<WHdrB, LocF, EqLine, WHdrEsc, LocG, EqLine>>,
      <<EHdrA, LocF, EmptyLine>>,
      <<WHdrA, LocF, EqLine, EHdrB, TextLine, LocF, EmptyLine>>,
      <<WHdrA, EqLine>>,
      <<TextLine>> }

\* The texts of at most n segments of a pool
Texts(pool, n) == {Unlines(Flatten(ss)) : ss \in UNION {[1..k -> pool] : k \in 0..n}}

\* The texts given to the scanner on its own, and the captured stderr texts
ScanTexts == Texts(SegPool, MaxSegs)
StderrTexts == Texts(ProcSegPool, MaxProcSegs)

-----------------------------------------------------------------------------
(* The scanner on its own: SpecScan                                        *)

NoInvocations == << >>
NoConfig == [project_folder |-> << >>, movefmt_cmd |-> << >>]

ScanInit ==
    /\ \E input \in ScanTexts : sc = [input |-> input, st |-> ScanStart(input)]
    /\ inv = NoInvocations
    /\ cfg = NoConfig

ScanLine ==
    /\ ~ScanEnded(sc.st)
    /\ sc' = [sc EXCEPT !.st = ScanStep(@)]
    /\ UNCHANGED <<inv, cfg>>

ScanNext == ScanLine

SpecScan == ScanInit /\ [][ScanNext]_vars

-----------------------------------------------------------------------------
(* The scanner on an error header followed by one candidate location line  *)

MaxLocFields == 3

\* What stands before the first ':' of a candidate line
LocHeads ==
    { <<MARK, SP, "f.move">>, <<SP, SP, MARK, SP, "f.move", SP>>,
      <<SP, "f.move">>, <<"a", MARK>>, <<MARK, "a", MARK, "b">> }

\* What stands between two ':' of a candidate line
LocFields ==
    { <<"1", "0">>, <<"0", "7">>, <<"+", "5">>, <<"-", "0">>, <<"x">>, << >>,
      <<"5", SP>>, U32Max,
      <<"4", "2", "9", "4", "9", "6", "7", "2", "9", "6">> }

RECURSIVE JoinFields(_)
JoinFields(fs) ==
    IF Len(fs) = 1 THEN Head(fs) ELSE (Head(fs) \o <<":">>) \o JoinFields(Tail(fs))

LocLines ==
    {JoinFields(<<h>> \o ns) :
        h \in LocHeads, ns \in UNION {[1..k -> LocFields] : k \in 0..MaxLocFields}}

LocInit ==
    /\ \E l \in LocLines :
          LET input == Unlines(<<EHdrA, l>>)
          IN  sc = [input |-> input, st |-> ScanStart(input)]
    /\ inv = NoInvocations
    /\ cfg = NoConfig

SpecLoc == LocInit /\ [][ScanNext]_vars

-----------------------------------------------------------------------------
(* The scanner on one block whose header line is drawn from many           *)

MaxHdrTokens == 3

\* What can follow the severity prefix on a header line
HdrTokens == {WPFX, EPFX, "W3", "]", SP}

HdrLines ==
    {<<pfx>> \o t : pfx \in {WPFX, EPFX},
                    t \in UNION {[1..k -> HdrTokens] : k \in 0..MaxHdrTokens}}

HdrInit ==
    /\ \E h \in HdrLines :
          LET input == Unlines(<<h, LocF, IF Head(h) = WPFX THEN EqLine ELSE EmptyLine>>)
          IN  sc = [input |-> input, st |-> ScanStart(input)]
    /\ inv = NoInvocations
    /\ cfg = NoConfig

SpecHdr == HdrInit /\ [][ScanNext]_vars

-----------------------------------------------------------------------------
(* The service: format_project and validate_project                        *)

\* The invocations of one run of the service
Invocations == DOMAIN inv

\* Configurations: (project_folder, movefmt_cmd)
Configs ==
    [project_folder : {<<"/p">>},
     movefmt_cmd : {<<"movefmt">>, <<"npx", SP, SP, "movefmt", SP, "-q">>}]

\* Exit statuses of a formatter process (Output.status, which no handler reads)
ExitStatuses == {0, 1}

\* The text of the OS error of a failed launch
OsErrors == {"No such file or directory", "Permission denied"}

\* What a launch can do: start the process, or fail with an OS error
LaunchOutcomes == {<<"started">>} \cup {<<"failed", e>> : e \in OsErrors}

\* Captured stdout of the test subprocess
StdoutPool ==
    { << >>,
      <<"a", NL>>,
      <<TOK, ".", SP, "a", NL>>,
      <<"a", NL, TFAIL, ":", SP, "1", NL, NL, "a", SP, NL>>,
      <<TOK, NL, SP, TFAIL, NL>>,
      <<TFAIL, ":", "a", NL, TFAIL, ":", NL>> }

\* build_fmt_command: split at ' ', the first part the program, the others arguments
build_fmt_command(cmd_str) ==
    LET parts == Split(cmd_str, SP)
    IN  [program |-> Head(parts), args |-> Tail(parts), cwd |-> << >>]

\* Command::arg
Arg(cmd, a) == [cmd EXCEPT !.args = Append(@, a)]

\* Command::new("sui").arg("move").arg(sub) ... .current_dir(project_folder)
SuiCommand(args) == [program |-> <<"sui">>, args |-> args, cwd |-> cfg.project_folder]
BuildCommand == SuiCommand(<< <<"move">>, <<"build">>, <<"--force">> >>)
TestCommand == SuiCommand(<< <<"move">>, <<"test">> >>)

\* remove_before, for a one-token pattern
remove_before(s, pattern) ==
    LET idx == Find(s, pattern)
    IN  IF idx = << >> THEN s ELSE SubSeq(s, idx[1], Len(s))

parse_test_output(s) == remove_before(s, TFAIL)

\* Mutant of TestResults: "Test result: OK" is looked for first
TestResultsOkFirst(stdout) ==
    IF Contains(stdout, TOK) THEN << <<"PASSED">> >>
    ELSE IF Contains(stdout, TFAIL)
    THEN <<(<<"FAILED:", NL, NL>> \o Trim(parse_test_output(stdout)))>>
    ELSE << >>

\* The value of test_results: None, or Some(text)
TestResults(stdout) ==
    IF Contains(stdout, TFAIL)
    THEN <<(<<"FAILED:", NL, NL>> \o Trim(parse_test_output(stdout)))>>
    ELSE IF Contains(stdout, TOK) THEN << <<"PASSED">> >>
    ELSE << >>

\* map.values().collect::<Vec<_>>(): the bodies, in no particular order (a bag)
Values(m) ==
    [b \in {m[k] : k \in DOMAIN m} |-> Cardinality({k \in DOMAIN m : m[k] = b})]

\* Mutant of MapExtend: the entries of src are left out
MapExtendNothing(dst, src) == dst

\* Mutant of MapExtend: an entry dst already has is kept
MapExtendKeepDst(dst, src) == dst @@ src

\* HashMap::extend: the entries of src are inserted into dst
MapExtend(dst, src) == src @@ dst

\* Results of a handler (the messages are spelled without their backquotes)
ErrResult(msg, e) == [kind |-> "error", message |-> <<msg, e>>]
TextResult(t) == [kind |-> "text", text |-> t]
JsonResult(warnings, errors, test_results) ==
    [kind |-> "json", warnings |-> Values(warnings), buildErrors |-> Values(errors),
     testResults |-> test_results]

\* An invocation that has not been called
Idle ==
    [op |-> "none", pc |-> "idle", log |-> << >>, cmd |-> << >>,
     build_stderr |-> << >>, build_warnings |-> << >>,
     test_stdout |-> << >>, test_stderr |-> << >>, exits |-> << >>, result |-> << >>]

Event(ev, cmd) == [ev |-> ev, program |-> cmd.program, args |-> cmd.args, cwd |-> cmd.cwd]

\* Mutant of Launch: a failed launch is logged and the handler goes on
LaunchIgnoringFailure(i, cmd, outcome, running, msg) ==
    inv' = [inv EXCEPT ![i].pc = running, ![i].cmd = <<cmd>>,
                       ![i].log = Append(@, Event(IF outcome[1] = "started" THEN "spawn"
                                                  ELSE "spawn_failed", cmd))]

\* Command::output(): the launch.  On failure map_err builds the error and ? returns it
Launch(i, cmd, outcome, running, msg) ==
    IF outcome[1] = "started"
    THEN inv' = [inv EXCEPT ![i].pc = running, ![i].cmd = <<cmd>>,
                            ![i].log = Append(@, Event("spawn", cmd))]
    ELSE inv' = [inv EXCEPT ![i].pc = "done", ![i].cmd = <<cmd>>,
                            ![i].log = Append(@, Event("spawn_failed", cmd)),
                            ![i].result = <<ErrResult(msg, outcome[2])>>]

CallFormat(i) ==
    /\ inv[i].pc = "idle"
    /\ inv' = [inv EXCEPT ![i].op = "format", ![i].pc = "fmt_start"]
    /\ UNCHANGED <<sc, cfg>>

FormatSpawnSources(i, outcome) ==
    /\ inv[i].pc = "fmt_start"
    /\ Launch(i, Arg(build_fmt_command(cfg.movefmt_cmd), cfg.project_folder \o <<"/sources">>),
              outcome, "fmt_sources_running", "Failed to run formatter on sources: ")
    /\ UNCHANGED <<sc, cfg>>

\* The first formatter process has exited with this status: Ok(Output), dropped
FormatSourcesExit(i, status) ==
    /\ inv[i].pc = "fmt_sources_running"
    /\ inv' = [inv EXCEPT ![i].pc = "fmt_sources_done",
                          ![i].exits = Append(@, status),
                          ![i].log = Append(@, Event("exit", inv[i].cmd[1]))]
    /\ UNCHANGED <<sc, cfg>>

\* The second output() is called on the same Command value, after one more arg()
FormatSpawnTests(i, outcome) ==
    /\ inv[i].pc = "fmt_sources_done"
    /\ Launch(i, Arg(inv[i].cmd[1], cfg.project_folder \o <<"/tests">>),
              outcome, "fmt_tests_running", "Failed to run formatter on tests: ")
    /\ UNCHANGED <<sc, cfg>>

\* Mutant of FormatTestsExit: a non-zero exit status is reported as a failure
FormatTestsExitChecked(i, status) ==
    /\ inv[i].pc = "fmt_tests_running"
    /\ inv' = [inv EXCEPT ![i].pc = "done",
                          ![i].exits = Append(@, status),
                          ![i].log = Append(@, Event("exit", inv[i].cmd[1])),
                          ![i].result =
                              IF status = 0 THEN <<TextResult(<<"OK">>)>>
                              ELSE <<ErrResult("Failed to run formatter on tests: ", "exit status")>>]
    /\ UNCHANGED <<sc, cfg>>

\* The second formatter process has exited with this status: Ok(Output), dropped; OK
FormatTestsExit(i, status) ==
    /\ inv[i].pc = "fmt_tests_running"
    /\ inv' = [inv EXCEPT ![i].pc = "done",
                          ![i].exits = Append(@, status),
                          ![i].log = Append(@, Event("exit", inv[i].cmd[1])),
                          ![i].result = <<TextResult(<<"OK">>)>>]
    /\ UNCHANGED <<sc, cfg>>

CallValidate(i) ==
    /\ inv[i].pc = "idle"
    /\ inv' = [inv EXCEPT ![i].op = "validate", ![i].pc = "val_start"]
    /\ UNCHANGED <<sc, cfg>>

ValidateSpawnBuild(i, outcome) ==
    /\ inv[i].pc = "val_start"
    /\ Launch(i, BuildCommand, outcome, "build_running", "Failed to build project: ")
    /\ UNCHANGED <<sc, cfg>>

\* Mutant of ValidateBuildExit: build errors do not end the invocation
ValidateBuildExitNoReturn(i, stderr) ==
    /\ inv[i].pc = "build_running"
    /\ LET r == extract_build_output(stderr)
           base == [inv[i] EXCEPT !.log = Append(@, Event("exit", inv[i].cmd[1])),
                                  !.build_stderr = <<stderr>>]
       IN  inv' = [inv EXCEPT ![i] =
                IF r.mode = "Panicked" THEN [base EXCEPT !.pc = "panicked"]
                ELSE [base EXCEPT !.pc = "build_ok", !.build_warnings = r.warnings]]
    /\ UNCHANGED <<sc, cfg>>

\* The build has exited with this stderr: the scan, and the return on build errors
ValidateBuildExit(i, stderr) ==
    /\ inv[i].pc = "build_running"
    /\ LET r == extract_build_output(stderr)
           base == [inv[i] EXCEPT !.log = Append(@, Event("exit", inv[i].cmd[1])),
                                  !.build_stderr = <<stderr>>]
       IN  inv' = [inv EXCEPT ![i] =
                IF r.mode = "Panicked" THEN [base EXCEPT !.pc = "panicked"]
                ELSE IF DOMAIN r.errors # {}
                THEN [base EXCEPT !.pc = "done", !.build_warnings = r.warnings,
                                  !.result = <<JsonResult(r.warnings, r.errors, << >>)>>]
                ELSE [base EXCEPT !.pc = "build_ok", !.build_warnings = r.warnings]]
    /\ UNCHANGED <<sc, cfg>>

ValidateSpawnTest(i, outcome) ==
    /\ inv[i].pc = "build_ok"
    /\ Launch(i, TestCommand, outcome, "test_running", "Failed to run tests: ")
    /\ UNCHANGED <<sc, cfg>>

\* Mutant of ValidateTestExit: the build warnings are kept in one place that every
\* invocation writes and reads
ValidateTestExitShared(i, stdout, stderr) ==
    /\ inv[i].pc = "test_running"
    /\ LET test_results == TestResults(stdout)
           r == extract_build_output(stderr)
           base == [inv[i] EXCEPT !.log = Append(@, Event("exit", inv[i].cmd[1])),
                                  !.test_stdout = <<stdout>>, !.test_stderr = <<stderr>>]
           last == CHOOSE j \in Invocations :
                      \A k \in Invocations : inv[k].build_warnings # << >> => k <= j
       IN  inv' = [inv EXCEPT ![i] =
                IF r.mode = "Panicked" THEN [base EXCEPT !.pc = "panicked"]
                ELSE [base EXCEPT !.pc = "done",
                                  !.result = <<JsonResult(MapExtend(r.warnings, inv[last].build_warnings),
                                                          r.errors, test_results)>>]]
    /\ UNCHANGED <<sc, cfg>>

\* The tests have exited with this stdout and stderr: the verdict, the scan, the merge
ValidateTestExit(i, stdout, stderr) ==
    /\ inv[i].pc = "test_running"
    /\ LET test_results == TestResults(stdout)
           r == extract_build_output(stderr)
           base == [inv[i] EXCEPT !.log = Append(@, Event("exit", inv[i].cmd[1])),
                                  !.test_stdout = <<stdout>>, !.test_stderr = <<stderr>>]
       IN  inv' = [inv EXCEPT ![i] =
                IF r.mode = "Panicked" THEN [base EXCEPT !.pc = "panicked"]
                ELSE [base EXCEPT !.pc = "done",
                                  !.result = <<JsonResult(MapExtend(r.warnings, inv[i].build_warnings),
                                                          r.errors, test_results)>>]]
    /\ UNCHANGED <<sc, cfg>>

\* One invocation, under every configuration
NoScan == [input |-> << >>, st |-> ScanStart(<< >>)]

Init ==
    /\ sc = NoScan
    /\ cfg \in Configs
    /\ inv = [i \in {1} |-> Idle]

Next ==
    \/ \E i \in Invocations : CallFormat(i)
    \/ \E i \in Invocations, o \in LaunchOutcomes : FormatSpawnSources(i, o)
    \/ \E i \in Invocations, x \in ExitStatuses : FormatSourcesExit(i, x)
    \/ \E i \in Invocations, o \in LaunchOutcomes : FormatSpawnTests(i, o)
    \/ \E i \in Invocations, x \in ExitStatuses : FormatTestsExit(i, x)
    \/ \E i \in Invocations : CallValidate(i)
    \/ \E i \in Invocations, o \in LaunchOutcomes : ValidateSpawnBuild(i, o)
    \/ \E i \in Invocations :
          inv[i].pc = "build_running" /\ \E e \in StderrTexts : ValidateBuildExit(i, e)
    \/ \E i \in Invocations, o \in LaunchOutcomes : ValidateSpawnTest(i, o)
    \/ \E i \in Invocations :
          inv[i].pc = "test_running" /\
             \E o \in StdoutPool, e \in StderrTexts : ValidateTestExit(i, o, e)

Spec == Init /\ [][Next]_vars

-----------------------------------------------------------------------------
(* Several invocations in flight at once, their steps interleaved          *)

ConcInvocations == 2

ConcOutcomes == {<<"started">>, <<"failed", "Permission denied">>}

ConcStderr ==
    { Unlines(<<WHdrA, LocF, EqLine>>), Unlines(<<WHdrB, LocF, EqLine>>),
      Unlines(<<EHdrA, LocF, EmptyLine>>), Unlines(<<WHdrA, EqLine>>) }

ConcStdout == { <<TOK, NL>>, <<"a", NL, TFAIL, ":", SP, "1", NL>> }

\* Every handler takes &self and keeps what it computes in locals: an invocation's
\* step reads and writes its own entry of inv
ConcInit ==
    /\ sc = NoScan
    /\ cfg = [project_folder |-> <<"/p">>, movefmt_cmd |-> <<"movefmt">>]
    /\ inv = [i \in 1..ConcInvocations |-> Idle]

ConcNext ==
    \/ \E i \in Invocations : CallFormat(i)
    \/ \E i \in Invocations, o \in ConcOutcomes : FormatSpawnSources(i, o)
    \/ \E i \in Invocations, x \in ExitStatuses : FormatSourcesExit(i, x)
    \/ \E i \in Invocations, o \in ConcOutcomes : FormatSpawnTests(i, o)
    \/ \E i \in Invocations, x \in ExitStatuses : FormatTestsExit(i, x)
    \/ \E i \in Invocations : CallValidate(i)
    \/ \E i \in Invocations, o \in ConcOutcomes : ValidateSpawnBuild(i, o)
    \/ \E i \in Invocations, e \in ConcStderr : ValidateBuildExit(i, e)
    \/ \E i \in Invocations, o \in ConcOutcomes : ValidateSpawnTest(i, o)
    \/ \E i \in Invocations, o \in ConcStdout, e \in ConcStderr : ValidateTestExit(i, o, e)

SpecConc == ConcInit /\ [][ConcNext]_vars

-----------------------------------------------------------------------------
(* Properties of the scanner                                               *)

\* The lines the scan iterates over, and how many of them it has consumed
AllLines == sc.st.lines
Consumed == sc.st.pos

\* The first line of lines i.. that parse_location matches, as an Option
RECURSIVE FirstLocation(_)
FirstLocation(ls) ==
    IF ls = << >> THEN << >>
    ELSE IF parse_location(Head(ls)) # << >> THEN parse_location(Head(ls))
    ELSE FirstLocation(Tail(ls))

\* A line whose trimmed content starts with '='
IsEqLine(line) == Trim(line) # << >> /\ Head(Trim(line)) = "="

\* The scan has ended on a block that its terminator line closed (not the end of
\* the input) and in which no line was a valid location marker
TerminatedWithoutLocation ==
    /\ ScanEnded(sc.st)
    /\ sc.st.block # << >>
    /\ sc.st.location = << >>
    /\ Consumed > 0
    /\ \/ Head(sc.st.block) = WPFX /\ IsEqLine(AllLines[Consumed])
       \/ Head(sc.st.block) = EPFX /\ AllLines[Consumed] = << >>

\* C2: when a warning block is ended by an '=' line, or an error block by an empty
\* line, and no line of the block was a valid location marker, the scan ends with a
\* typed MalformedDiagnosticBlock error returned to the caller: no record for that
\* block, no invented location, and no panic.
C2_MalformedBlockIsTypedError ==
    TerminatedWithoutLocation =>
        /\ sc.st.mode = "MalformedDiagnosticBlock"
        /\ sc.st.mode # "Panicked"

\* The last insert of severity sev and identity k
LastEmitted(sev, k) ==
    LET e == sc.st.emitted
        i == CHOOSE i \in 1..Len(e) :
                /\ e[i].sev = sev /\ e[i].notice = k
                /\ \A j \in (i + 1)..Len(e) : ~(e[j].sev = sev /\ e[j].notice = k)
    IN  e[i]

EmittedKeys(sev) ==
    {sc.st.emitted[i].notice : i \in {j \in 1..Len(sc.st.emitted) : sc.st.emitted[j].sev = sev}}

\* C3: each of the warnings set and the errors set holds one record per identity
\* (file, line, column, code) of the blocks of its severity, and where several
\* blocks share an identity the record's body is that of the latest block.
C3_IdentityDedupLastWins ==
    /\ DOMAIN sc.st.warnings = EmittedKeys("warning")
    /\ DOMAIN sc.st.errors = EmittedKeys("error")
    /\ \A k \in DOMAIN sc.st.warnings : sc.st.warnings[k] = LastEmitted("warning", k).body
    /\ \A k \in DOMAIN sc.st.errors : sc.st.errors[k] = LastEmitted("error", k).body

\* Two blocks of one severity and one identity with different bodies were scanned
C3_Witness ==
    /\ sc.st.mode = "Returned"
    /\ \E i, j \in 1..Len(sc.st.emitted) :
          /\ i < j
          /\ sc.st.emitted[i].sev = sc.st.emitted[j].sev
          /\ sc.st.emitted[i].notice = sc.st.emitted[j].notice
          /\ sc.st.emitted[i].body # sc.st.emitted[j].body
          /\ \A l \in (j + 1)..Len(sc.st.emitted) : sc.st.emitted[l].notice # sc.st.emitted[j].notice

\* Lines joined by '\n'
RECURSIVE Join(_)
Join(ls) ==
    IF ls = << >> THEN << >>
    ELSE IF Len(ls) = 1 THEN Head(ls)
    ELSE (Head(ls) \o <<NL>>) \o Join(Tail(ls))

\* ls is a complete block: a header starting with pfx, lines of which one is a valid
\* location marker and none a terminator, and last the terminator
IsCompleteBlock(ls, pfx, IsTerm(_)) ==
    /\ Len(ls) >= 3
    /\ StartsWith(ls[1], <<pfx>>)
    /\ IsTerm(ls[Len(ls)])
    /\ \A i \in 2..(Len(ls) - 1) : ~IsTerm(ls[i])
    /\ FirstLocation(SubSeq(ls, 2, Len(ls) - 1)) # << >>

\* The record of a complete block
BlockRecord(ls, pfx, sev) ==
    [sev |-> sev,
     notice |-> LineNotice(FirstLocation(SubSeq(ls, 2, Len(ls) - 1))[1], HeaderCode(ls[1], pfx)),
     body |-> Trim(Join(SubSeq(ls, 1, Len(ls) - 1)))]

IsEmptyLine(line) == line = << >>

\* The input is a complete warning block followed at once by a complete error block
WarningThenError(k) ==
    /\ IsCompleteBlock(SubSeq(AllLines, 1, k), WPFX, IsEqLine)
    /\ IsCompleteBlock(SubSeq(AllLines, k + 1, Len(AllLines)), EPFX, IsEmptyLine)

\* C4: an input made of a complete warning block immediately followed by a complete
\* error block yields exactly one Warning record with the warning's code, location and
\* lines and exactly one Error record with the error's code, location and lines.
C4_WarningThenErrorBlock ==
    \A k \in 1..Len(AllLines) :
        (ScanEnded(sc.st) /\ WarningThenError(k)) =>
            LET w == BlockRecord(SubSeq(AllLines, 1, k), WPFX, "warning")
                e == BlockRecord(SubSeq(AllLines, k + 1, Len(AllLines)), EPFX, "error")
            IN  /\ sc.st.mode = "Returned"
                /\ sc.st.emitted = <<w, e>>
                /\ sc.st.warnings = (w.notice :> w.body)
                /\ sc.st.errors = (e.notice :> e.body)

\* Such an input has been scanned to its end, the two blocks differing in code or place
C4_Witness ==
    /\ ScanEnded(sc.st)
    /\ \E k \in 1..Len(AllLines) : WarningThenError(k)
    /\ Len(sc.st.emitted) = 2
    /\ sc.st.emitted[1].notice.file # sc.st.emitted[2].notice.file

\* The lines of the open block: the header and the lines consumed after it
HeaderIndex == Consumed - Len(Lines(sc.st.block)) + 1
OpenBlockLines == SubSeq(AllLines, HeaderIndex, Consumed)

\* One step of the scanner inside a block of the given mode: the block holds the
\* header and every line consumed since, none of them a terminator; a terminator
\* line is consumed, stays out of the body and (a location being known) gives
\* exactly one record of severity sev and the Scanning state at the next line; any
\* other line is added to the block.
BlockStep(mode, pfx, sev, IsTerm(_)) ==
    (sc.st.mode = mode /\ ~Exhausted(sc.st)) =>
        LET line == AllLines[Consumed + 1]
            last == sc'.st.emitted[Len(sc'.st.emitted)]
            map == IF sev = "warning" THEN sc'.st.warnings ELSE sc'.st.errors
        IN  /\ HeaderIndex >= 1
            /\ StartsWith(AllLines[HeaderIndex], <<pfx>>)
            /\ sc.st.block = Unlines(OpenBlockLines)
            /\ \A i \in (HeaderIndex + 1)..Consumed : ~IsTerm(AllLines[i])
            /\ sc'.st.pos = Consumed + 1
            /\ IF IsTerm(line)
               THEN sc.st.location # << >> =>
                      /\ sc'.st.mode = "Scanning"
                      /\ Len(sc'.st.emitted) = Len(sc.st.emitted) + 1
                      /\ SubSeq(sc'.st.emitted, 1, Len(sc.st.emitted)) = sc.st.emitted
                      /\ last.sev = sev
                      /\ last.body = Trim(Join(OpenBlockLines))
                      /\ last.notice \in DOMAIN map /\ map[last.notice] = last.body
               ELSE /\ sc'.st.mode = mode
                    /\ sc'.st.emitted = sc.st.emitted
                    /\ sc'.st.block = (sc.st.block \o line) \o <<NL>>

\* C5: a warning block ends at the first following line whose trimmed content starts
\* with '=' and not at a blank line; that line is consumed and left out of the body,
\* scanning resumes at the next line, and one Warning record is emitted whose body is
\* the header and the lines before the terminator, joined by newlines and trimmed.
C5_WarningBlockEndsAtEqLine ==
    [][BlockStep("InWarningBlock", WPFX, "warning", IsEqLine)]_vars

\* A warning block with an empty line inside was closed by an '=' line
C5_Witness ==
    /\ sc.st.mode = "Scanning"
    /\ Consumed > 0 /\ IsEqLine(AllLines[Consumed])
    /\ Len(sc.st.emitted) > 0
    /\ LET last == sc.st.emitted[Len(sc.st.emitted)]
       IN  /\ last.sev = "warning"
           /\ \E i \in 1..Len(Lines(last.body)) : Lines(last.body)[i] = << >>
           /\ last.body = Trim(Join(SubSeq(AllLines, Consumed - Len(Lines(last.body)), Consumed - 1)))

\* C6: an error block ends at the first following empty line and only there; the
\* empty line is consumed and left out of the body, a line starting with '=' inside
\* the block goes into the body, and one Error record is emitted on termination.
C6_ErrorBlockEndsAtEmptyLine ==
    [][BlockStep("InErrorBlock", EPFX, "error", IsEmptyLine)]_vars

\* An error block with an '=' line inside was closed by an empty line
C6_Witness ==
    /\ sc.st.mode = "Scanning"
    /\ Consumed > 0 /\ AllLines[Consumed] = << >>
    /\ Len(sc.st.emitted) > 0
    /\ LET last == sc.st.emitted[Len(sc.st.emitted)]
       IN  /\ last.sev = "error"
           /\ \E i \in 1..Len(Lines(last.body)) : IsEqLine(Lines(last.body)[i])
           /\ last.body = Trim(Join(SubSeq(AllLines, Consumed - Len(Lines(last.body)), Consumed - 1)))

-----------------------------------------------------------------------------
(* Properties of the service                                               *)

IsLaunch(e, cmd) ==
    e.ev \in {"spawn", "spawn_failed"} /\ e.program = cmd.program /\ e.args = cmd.args

\* The launch of the test subprocess was attempted
TestAttempted(i) == \E j \in 1..Len(inv[i].log) : IsLaunch(inv[i].log[j], TestCommand)

\* The build of invocation i has exited and the scan of its stderr returned
BuildScanned(i) ==
    /\ inv[i].op = "validate"
    /\ inv[i].build_stderr # << >>
    /\ extract_build_output(inv[i].build_stderr[1]).mode = "Returned"

BuildScan(i) == extract_build_output(inv[i].build_stderr[1])

\* C1: when the scan of the build's stderr gives a non-empty error set, the test
\* subprocess is never started and the payload is testResults = null, warnings = the
\* build warnings, buildErrors = the build errors.
C1_BuildErrorsShortCircuit ==
    \A i \in Invocations :
        (BuildScanned(i) /\ DOMAIN BuildScan(i).errors # {}) =>
            /\ ~TestAttempted(i)
            /\ inv[i].test_stdout = << >> /\ inv[i].test_stderr = << >>
            /\ inv[i].pc = "done"
            /\ inv[i].result =
                  <<[kind |-> "json", warnings |-> Values(BuildScan(i).warnings),
                     buildErrors |-> Values(BuildScan(i).errors), testResults |-> << >>]>>

\* A build with a warning and an error has been answered
C1_Witness ==
    \E i \in Invocations :
        /\ BuildScanned(i)
        /\ DOMAIN BuildScan(i).errors # {} /\ DOMAIN BuildScan(i).warnings # {}
        /\ inv[i].result # << >>

\* The first place of token t in s
FirstIndex(s, t) == CHOOSE k \in 1..Len(s) : s[k] = t /\ \A j \in 1..(k - 1) : s[j] # t

\* The test phase of invocation i has been answered
TestAnswered(i) ==
    /\ inv[i].op = "validate" /\ inv[i].pc = "done"
    /\ inv[i].test_stdout # << >>
    /\ inv[i].result # << >> /\ inv[i].result[1].kind = "json"

\* C7: the verdict is Failed, "FAILED:\n\n" and the trimmed stdout from the first
\* "Test failures" on, if stdout contains "Test failures"; else "PASSED" if it
\* contains "Test result: OK"; else null.  testResults has no other value.
C7_VerdictPriority ==
    \A i \in Invocations :
        /\ TestAnswered(i) =>
              LET out == inv[i].test_stdout[1]
                  res == inv[i].result[1].testResults
              IN  IF \E k \in 1..Len(out) : out[k] = TFAIL
                  THEN res = << <<"FAILED:", NL, NL>> \o
                                Trim(SubSeq(out, FirstIndex(out, TFAIL), Len(out))) >>
                  ELSE IF \E k \in 1..Len(out) : out[k] = TOK
                  THEN res = << <<"PASSED">> >>
                  ELSE res = << >>
        /\ (inv[i].result # << >> /\ inv[i].result[1].kind = "json") =>
              LET res == inv[i].result[1].testResults
              IN  \/ res = << >>
                  \/ res = << <<"PASSED">> >>
                  \/ StartsWith(res[1], <<"FAILED:", NL, NL>>)

\* A stdout with "Test result: OK" before text and then "Test failures" was classified
C7_Witness ==
    \E i \in Invocations :
        /\ TestAnswered(i)
        /\ LET out == inv[i].test_stdout[1]
           IN  /\ Contains(out, TOK) /\ Contains(out, TFAIL)
               /\ FirstIndex(out, TFAIL) > 1
               /\ inv[i].result[1].testResults # << >>

\* The number of entries of a bag
BagSize(b) ==
    LET RECURSIVE Sum(_)
        Sum(S) == IF S = {} THEN 0
                  ELSE LET x == CHOOSE x \in S : TRUE IN b[x] + Sum(S \ {x})
    IN  Sum(DOMAIN b)

\* Both subprocesses of invocation i have exited and both scans returned
BothScanned(i) ==
    /\ BuildScanned(i)
    /\ inv[i].test_stderr # << >>
    /\ extract_build_output(inv[i].test_stderr[1]).mode = "Returned"

TestScan(i) == extract_build_output(inv[i].test_stderr[1])

\* C8: with zero build errors, the returned warnings hold exactly one entry for each
\* identity in the union of the build and the test warning identities, a body that
\* the build or the tests reported for it; buildErrors are the errors scanned from the
\* tests' stderr; testResults is the classification of the tests' stdout.
C8_TestPhaseMerge ==
    \A i \in Invocations :
        (BuildScanned(i) /\ DOMAIN BuildScan(i).errors = {} /\ inv[i].test_stderr # << >>
            /\ TestScan(i).mode = "Returned") =>
            LET bw == BuildScan(i).warnings
                tw == TestScan(i).warnings
                ids == DOMAIN bw \cup DOMAIN tw
                bodies(k) == (IF k \in DOMAIN bw THEN {bw[k]} ELSE {}) \cup
                             (IF k \in DOMAIN tw THEN {tw[k]} ELSE {})
            IN  /\ inv[i].pc = "done"
                /\ inv[i].result # << >>
                /\ inv[i].result[1].kind = "json"
                /\ BagSize(inv[i].result[1].warnings) = Cardinality(ids)
                /\ \A k \in ids : \E b \in DOMAIN inv[i].result[1].warnings : b \in bodies(k)
                /\ \A b \in DOMAIN inv[i].result[1].warnings : \E k \in ids : b \in bodies(k)
                /\ inv[i].result[1].buildErrors = Values(TestScan(i).errors)
                /\ inv[i].result[1].testResults = TestResults(inv[i].test_stdout[1])

\* Build and tests share a warning identity, the tests report one more and an error
C8_Witness ==
    \E i \in Invocations :
        /\ BothScanned(i)
        /\ inv[i].result # << >>
        /\ DOMAIN BuildScan(i).warnings \cap DOMAIN TestScan(i).warnings # {}
        /\ DOMAIN BuildScan(i).warnings # DOMAIN TestScan(i).warnings
        /\ DOMAIN TestScan(i).errors # {}

\* The processes of invocation i that have been started and have not exited
Running(i) ==
    LET log == inv[i].log
    IN  {j \in 1..Len(log) : log[j].ev = "spawn" /\ (j = Len(log) \/ log[j + 1].ev # "exit")}

\* C9: in a validate invocation no two subprocesses run at once; the test subprocess
\* is launched only after the build subprocess has exited and the scan of its stderr
\* gave zero errors; if the build fails to launch, the invocation returns an error
\* and the test subprocess is never launched.
C9_BuildThenTest ==
    \A i \in Invocations :
        inv[i].op = "validate" =>
            LET log == inv[i].log
            IN  /\ Cardinality(Running(i)) <= 1
                /\ \A j \in 1..Len(log) :
                      IsLaunch(log[j], TestCommand) =>
                          /\ j = 3
                          /\ log[1] = Event("spawn", BuildCommand)
                          /\ log[2] = Event("exit", BuildCommand)
                          /\ BuildScanned(i)
                          /\ DOMAIN BuildScan(i).errors = {}
                /\ (Len(log) >= 1 /\ log[1].ev = "spawn_failed") =>
                      /\ Len(log) = 1
                      /\ inv[i].pc = "done"
                      /\ inv[i].result # << >>
                      /\ inv[i].result[1].kind = "error"
                      /\ inv[i].result[1].message[1] = "Failed to build project: "

\* The tests run after a build that left warnings
C9_Witness ==
    \E i \in Invocations :
        /\ inv[i].op = "validate"
        /\ Running(i) = {3}
        /\ IsLaunch(inv[i].log[3], TestCommand)
        /\ inv[i].build_warnings # << >>

\* The launches of invocation i, in order
Launches(i) == SelectSeq(inv[i].log, LAMBDA e : e.ev \in {"spawn", "spawn_failed"})

\* C10: format launches the formatter twice: first with the configured leading
\* arguments and only the sources path, then with the configured leading arguments
\* and only the tests path.
C10_FormatIndependentInvocations ==
    \A i \in Invocations :
        inv[i].op = "format" =>
            LET lead == Tail(Split(cfg.movefmt_cmd, SP))
                sources == cfg.project_folder \o <<"/sources">>
                tests == cfg.project_folder \o <<"/tests">>
            IN  /\ Len(Launches(i)) <= 2
                /\ Len(Launches(i)) >= 1 => Launches(i)[1].args = Append(lead, sources)
                /\ Len(Launches(i)) >= 2 =>
                      /\ Launches(i)[2].args = Append(lead, tests)
                      /\ \A k \in 1..Len(Launches(i)[2].args) : Launches(i)[2].args[k] # sources

\* C11: in format, a failed launch on sources returns an error naming sources and
\* the tests launch is never attempted; a failed launch on tests returns an error
\* naming tests; OK is returned exactly when both launches started, whatever the exit
\* statuses of the two processes.
C11_FormatLaunchFailures ==
    \A i \in Invocations :
        inv[i].op = "format" =>
            LET ls == Launches(i)
                BothStarted == Len(ls) = 2 /\ ls[1].ev = "spawn" /\ ls[2].ev = "spawn"
            IN  /\ (Len(ls) >= 1 /\ ls[1].ev = "spawn_failed") =>
                      /\ Len(ls) = 1 /\ inv[i].pc = "done"
                      /\ inv[i].result # << >> /\ inv[i].result[1].kind = "error"
                      /\ inv[i].result[1].message[1] = "Failed to run formatter on sources: "
                /\ (Len(ls) >= 2 /\ ls[2].ev = "spawn_failed") =>
                      /\ inv[i].pc = "done"
                      /\ inv[i].result # << >> /\ inv[i].result[1].kind = "error"
                      /\ inv[i].result[1].message[1] = "Failed to run formatter on tests: "
                /\ inv[i].result = <<TextResult(<<"OK">>)>> => BothStarted
                /\ (inv[i].pc = "done" /\ BothStarted) => inv[i].result = <<TextResult(<<"OK">>)>>

\* Both formatter processes ran and exited with a non-zero status
C11_Witness ==
    \E i \in Invocations :
        /\ inv[i].op = "format" /\ inv[i].pc = "done"
        /\ inv[i].exits = <<1, 1>>
        /\ inv[i].result # << >>

\* The lines ls cut into complete blocks, each a header up to its first
\* terminator; ok is FALSE when ls is not a run of complete blocks
RECURSIVE BlockSplit(_)
BlockSplit(ls) ==
    IF ls = << >> THEN [ok |-> TRUE, blocks |-> << >>]
    ELSE LET ends == {k \in 3..Len(ls) :
                         \/ IsCompleteBlock(SubSeq(ls, 1, k), WPFX, IsEqLine)
                         \/ IsCompleteBlock(SubSeq(ls, 1, k), EPFX, IsEmptyLine)}
         IN  IF ends = {} THEN [ok |-> FALSE, blocks |-> << >>]
             ELSE LET k == CHOOSE k \in ends : TRUE
                      r == BlockSplit(SubSeq(ls, k + 1, Len(ls)))
                  IN  [ok |-> r.ok, blocks |-> <<SubSeq(ls, 1, k)>> \o r.blocks]

\* The record of a complete block of either severity
RecordOf(b) ==
    IF StartsWith(b[1], <<WPFX>>) THEN BlockRecord(b, WPFX, "warning")
    ELSE BlockRecord(b, EPFX, "error")

Perms(n) == {p \in [1..n -> 1..n] : \A i, j \in 1..n : i # j => p[i] # p[j]}

\* Every order of the blocks of the scanned input gives the maps this scan gave
SameSetsInEveryOrder ==
    LET bs == BlockSplit(AllLines).blocks
    IN  \A p \in Perms(Len(bs)) :
            LET r == extract_build_output(Unlines(Flatten([i \in 1..Len(bs) |-> bs[p[i]]])))
            IN  /\ r.mode = "Returned"
                /\ r.warnings = sc.st.warnings
                /\ r.errors = sc.st.errors

\* No two blocks of one severity share an identity and differ in body
NoConflictingBlocks ==
    LET bs == BlockSplit(AllLines).blocks
    IN  \A i, j \in 1..Len(bs) :
            (RecordOf(bs[i]).sev = RecordOf(bs[j]).sev
                /\ RecordOf(bs[i]).notice = RecordOf(bs[j]).notice)
            => RecordOf(bs[i]).body = RecordOf(bs[j]).body

\* C12 as stated: for an input made of complete blocks, every permutation of the
\* blocks yields the same warnings set and the same errors set.
C12_AnyPermutationSameSets ==
    (sc.st.mode = "Returned" /\ BlockSplit(AllLines).ok) => SameSetsInEveryOrder

\* C12, amended: for an input made of complete blocks of which no two of the same
\* severity share an identity with different bodies, every permutation of the blocks
\* yields the same warnings set and the same errors set.
C12_PermutationOfDistinctBlocks ==
    (sc.st.mode = "Returned" /\ BlockSplit(AllLines).ok /\ NoConflictingBlocks)
        => SameSetsInEveryOrder

\* A whole scan of two warning blocks of different identities, nothing else in the input
C12_Witness ==
    /\ sc.st.mode = "Returned" /\ BlockSplit(AllLines).ok /\ NoConflictingBlocks
    /\ LET bs == BlockSplit(AllLines).blocks
       IN  /\ Len(bs) = 2
           /\ RecordOf(bs[1]).sev = "warning" /\ RecordOf(bs[2]).sev = "warning"
           /\ RecordOf(bs[1]).notice # RecordOf(bs[2]).notice

\* The scanner is inside a block
InBlock == sc.st.mode \in {"InWarningBlock", "InErrorBlock"}

\* C13: when the input ends inside a warning or error block in which no location
\* marker was found, the scan completes normally: the block is dropped without a
\* record, nothing panics, and the records of the earlier blocks are kept.
C13_OpenBlockWithoutLocationDropped ==
    [][(InBlock /\ Exhausted(sc.st) /\ FirstLocation(Tail(OpenBlockLines)) = << >>)
          => /\ sc'.st.mode = "Scanning"
             /\ sc'.st.emitted = sc.st.emitted
             /\ sc'.st.warnings = sc.st.warnings
             /\ sc'.st.errors = sc.st.errors]_vars

\* The value of a field that is an optional '+' and then decimal digits, as the pair
\* <<value \div 10^5, value % 10^5>>; << >> for any other field and for values
\* that have more than ten digits
RECURSIVE DigitsValue(_)
DigitsValue(d) ==
    IF d = << >> THEN 0
    ELSE 10 * DigitsValue(SubSeq(d, 1, Len(d) - 1))
            + (CHOOSE n \in 0..9 : ToString(n) = d[Len(d)])

NumberValue(f) ==
    LET d == IF f # << >> /\ Head(f) = "+" THEN Tail(f) ELSE f
        z == CHOOSE k \in 0..Len(d) :
                 /\ \A i \in 1..k : d[i] = "0"
                 /\ k = Len(d) \/ d[k + 1] # "0"
        n == SubSeq(d, z + 1, Len(d))
    IN  IF d = << >> \/ \E i \in 1..Len(d) : d[i] \notin Digits \/ Len(n) > 10 THEN << >>
        ELSE IF Len(n) <= 5 THEN <<0, DigitsValue(n)>>
        ELSE <<DigitsValue(SubSeq(n, 1, Len(n) - 5)), DigitsValue(SubSeq(n, Len(n) - 4, Len(n)))>>

\* The field is the decimal form of a number of 0 .. 2^32 - 1 = 42949 * 10^5 + 67295
IsU32(f) ==
    LET v == NumberValue(f)
    IN  v # << >> /\ (v[1] < 42949 \/ (v[1] = 42949 /\ v[2] <= 67295))

\* The candidate line of the input, once the scanner has read it inside the block
CandidateRead == sc.st.mode = "InErrorBlock" /\ Consumed = 2

\* C14: parse_location returns a match exactly when the trimmed line starts with the
\* marker, the line has at least three ':'-separated fields, and the second and third
\* are unsigned 32-bit numbers; the match holds the first field without the marker,
\* trimmed, and the two numbers; every other line gives no match.
C14_ParseLocationTotal ==
    CandidateRead =>
        LET line == AllLines[2]
            fs == Split(line, ":")
            loc == sc.st.location
        IN  IF /\ StartsWith(Trim(line), <<MARK>>)
               /\ Len(fs) >= 3
               /\ IsU32(fs[2]) /\ IsU32(fs[3])
            THEN /\ loc # << >>
                 /\ loc[1].file = Trim(RemoveAll(fs[1], MARK))
                 /\ NumberValue(loc[1].line_number) = NumberValue(fs[2])
                 /\ NumberValue(loc[1].column_number) = NumberValue(fs[3])
            ELSE loc = << >>

\* A line with four fields whose numbers are 4294967295 and +5 has been matched
C14_Witness ==
    /\ CandidateRead
    /\ Len(Split(AllLines[2], ":")) = 4
    /\ sc.st.location # << >>
    /\ sc.st.location[1].line_number = U32Max
    /\ sc.st.location[1].column_number = <<"5">>

\* The answer invocation i gives is the one its own launches and the outputs of its
\* own subprocesses determine
AnswersAsAlone(i) ==
    LET r == inv[i]
        ls == Launches(i)
        failed == ls # << >> /\ ls[Len(ls)].ev = "spawn_failed"
        IsErr(msg) == /\ r.result # << >> /\ r.result[1].kind = "error"
                      /\ r.result[1].message[1] = msg
                      /\ r.result[1].message[2] \in OsErrors
    IN  IF r.pc = "panicked"
        THEN /\ r.result = << >>
             /\ \/ BuildScan(i).mode = "Panicked"
                \/ r.test_stderr # << >> /\ TestScan(i).mode = "Panicked"
        ELSE IF r.op = "format"
        THEN IF failed
             THEN IsErr(IF Len(ls) = 1 THEN "Failed to run formatter on sources: "
                        ELSE "Failed to run formatter on tests: ")
             ELSE r.result = <<TextResult(<<"OK">>)>>
        ELSE IF failed
        THEN IsErr(IF Len(ls) = 1 THEN "Failed to build project: " ELSE "Failed to run tests: ")
        ELSE IF r.test_stderr = << >>
        THEN /\ DOMAIN BuildScan(i).errors # {}
             /\ r.result = <<JsonResult(BuildScan(i).warnings, BuildScan(i).errors, << >>)>>
        ELSE r.result = <<JsonResult(MapExtend(TestScan(i).warnings, BuildScan(i).warnings),
                                     TestScan(i).errors, TestResults(r.test_stdout[1]))>>

\* C15: invocations share no mutable state: under every interleaving each
\* invocation's result is the one it produces alone on the same outputs of its own
\* subprocesses, and nothing of another invocation appears in it.
C15_InvocationsIndependent ==
    \A i \in Invocations : inv[i].pc \in {"done", "panicked"} => AnswersAsAlone(i)

\* Two validate invocations have both run their tests and answered with different
\* warning bodies for the same identity, each its own build's
C15_Witness ==
    \E i, j \in Invocations :
        /\ i # j
        /\ TestAnswered(i) /\ TestAnswered(j)
        /\ inv[i].build_warnings # inv[j].build_warnings
        /\ DOMAIN inv[i].build_warnings = DOMAIN inv[j].build_warnings
        /\ DOMAIN inv[i].build_warnings # {}
        /\ inv[i].result[1].warnings # inv[j].result[1].warnings

\* The text of a header line after its leading severity prefix and before its first
\* ']', or to the end of the line when it has no ']'
TextToBracket(line) ==
    LET rest == Tail(line)
        ends == {k \in 1..Len(rest) : rest[k] = "]"}
    IN  IF ends = {} THEN rest
        ELSE SubSeq(rest, 1, (CHOOSE k \in ends : \A j \in ends : k <= j) - 1)

\* C16: the code of a block is the text of its header line between the severity
\* prefix and the first ']' of the line, also for a header that holds the prefix text
\* a second time and for a header without ']'.
C16_CodeIsTextToFirstBracket ==
    InBlock => sc.st.code = TextToBracket(AllLines[1])

\* The record appended by this step, if one is
NewRecord == sc'.st.emitted[Len(sc'.st.emitted)]

\* C17: the location of a block is that of the first line after the header that
\* parse_location matches: lines before it that fail to parse are passed over, lines
\* after it do not change it, and a record emitted for the block carries it.
C17_FirstLocationWins ==
    [][InBlock =>
          LET first == FirstLocation(Tail(OpenBlockLines))
          IN  /\ sc.st.location = first
              /\ Len(sc'.st.emitted) > Len(sc.st.emitted) =>
                    /\ first # << >>
                    /\ NewRecord.notice.file = first[1].file
                    /\ NewRecord.notice.line_number = first[1].line_number
                    /\ NewRecord.notice.column_number = first[1].column_number]_vars

\* A record whose block held a marker line that does not parse, then the marker of
\* g.move, then the marker of f.move: the record names g.move
C17_Witness ==
    /\ Len(sc.st.emitted) = 1
    /\ sc.st.emitted[1].notice.file = <<"g.move">>
    /\ LET b == Lines(sc.st.emitted[1].body)
       IN  \E i, j, k \in 1..Len(b) :
               i < j /\ j < k /\ b[i] = LocBad /\ b[j] = LocG /\ b[k] = LocF

\* C18: when the input ends inside a block in which a location was found, the end of
\* the input acts as the terminator: exactly one record of the block's severity is
\* emitted, with that location and the body accumulated up to the last line.
C18_EndOfInputClosesBlock ==
    [][(InBlock /\ Exhausted(sc.st) /\ FirstLocation(Tail(OpenBlockLines)) # << >>) =>
          LET sev == IF sc.st.mode = "InWarningBlock" THEN "warning" ELSE "error"
              map == IF sev = "warning" THEN sc'.st.warnings ELSE sc'.st.errors
              first == FirstLocation(Tail(OpenBlockLines))[1]
          IN  /\ Consumed = Len(AllLines)
              /\ sc'.st.mode = "Scanning"
              /\ Len(sc'.st.emitted) = Len(sc.st.emitted) + 1
              /\ SubSeq(sc'.st.emitted, 1, Len(sc.st.emitted)) = sc.st.emitted
              /\ NewRecord.sev = sev
              /\ NewRecord.body = Trim(Join(OpenBlockLines))
              /\ NewRecord.notice.file = first.file
              /\ NewRecord.notice.line_number = first.line_number
              /\ NewRecord.notice.column_number = first.column_number
              /\ NewRecord.notice \in DOMAIN map /\ map[NewRecord.notice] = NewRecord.body]_vars

\* An error block whose last line is the last line of the input, not an empty line,
\* has given its record
C18_Witness ==
    /\ sc.st.mode = "Scanning" /\ Consumed = Len(AllLines)
    /\ Len(sc.st.emitted) > 0
    /\ LET last == sc.st.emitted[Len(sc.st.emitted)]
           n == Len(Lines(last.body))
       IN  /\ last.sev = "error"
           /\ AllLines[Consumed] # << >>
           /\ n <= Consumed
           /\ StartsWith(AllLines[Consumed - n + 1], <<EPFX>>)
           /\ last.body = Trim(Join(SubSeq(AllLines, Consumed - n + 1, Consumed)))

IsHeader(line) == StartsWith(line, <<WPFX>>) \/ StartsWith(line, <<EPFX>>)

\* The number of header lines among lines i .. n of the input that are read in the
\* Scanning state, the line i being read in the state open
RECURSIVE HeadersInScanning(_, _, _)
HeadersInScanning(i, n, open) ==
    IF i > n THEN 0
    ELSE LET l == AllLines[i]
         IN  IF open = "Scanning"
             THEN IF StartsWith(l, <<WPFX>>) THEN 1 + HeadersInScanning(i + 1, n, "InWarningBlock")
                  ELSE IF StartsWith(l, <<EPFX>>) THEN 1 + HeadersInScanning(i + 1, n, "InErrorBlock")
                  ELSE HeadersInScanning(i + 1, n, "Scanning")
             ELSE IF (open = "InWarningBlock" /\ IsEqLine(l)) \/ (open = "InErrorBlock" /\ IsEmptyLine(l))
             THEN HeadersInScanning(i + 1, n, "Scanning")
             ELSE HeadersInScanning(i + 1, n, open)

\* C19: a header line read while a block is open is appended to that block's body,
\* opens no block and gives no record; the records emitted are never more than the
\* header lines read in the Scanning state.
C19_HeadersOnlyInScanning ==
    [][/\ Len(sc.st.emitted) <= HeadersInScanning(1, Consumed, "Scanning")
       /\ Len(sc'.st.emitted) <= HeadersInScanning(1, sc'.st.pos, "Scanning")
       /\ (InBlock /\ ~Exhausted(sc.st) /\ IsHeader(AllLines[Consumed + 1])) =>
             /\ sc'.st.mode = sc.st.mode
             /\ sc'.st.code = sc.st.code
             /\ sc'.st.emitted = sc.st.emitted
             /\ sc'.st.pos = Consumed + 1
             /\ sc'.st.block = (sc.st.block \o AllLines[Consumed + 1]) \o <<NL>>]_vars

\* The input held two header lines, the second inside the block of the first, and the
\* one record emitted has the second header in its body
C19_Witness ==
    /\ ScanEnded(sc.st)
    /\ Len(sc.st.emitted) = 1
    /\ Cardinality({i \in 1..Len(AllLines) : IsHeader(AllLines[i])}) = 2
    /\ LET b == Lines(sc.st.emitted[1].body)
       IN  \E i \in 2..Len(b) : IsHeader(b[i])

\* The warnings validate returns when build and tests were both scanned: for every
\* identity the build's body if the build reported it, else the tests' body
BuildOverTest(i) ==
    LET bw == BuildScan(i).warnings
        tw == TestScan(i).warnings
    IN  [k \in DOMAIN bw \cup DOMAIN tw |-> IF k \in DOMAIN bw THEN bw[k] ELSE tw[k]]

\* Identities that build and tests both reported, with different bodies
Conflicts(i) ==
    {k \in DOMAIN BuildScan(i).warnings \cap DOMAIN TestScan(i).warnings :
        BuildScan(i).warnings[k] # TestScan(i).warnings[k]}

\* C20: when build and tests both report a warning of one identity with different
\* bodies, the one entry validate returns for it carries the build's body.
C20_BuildBodyWins ==
    \A i \in Invocations :
        (BothScanned(i) /\ inv[i].pc = "done" /\ inv[i].test_stdout # << >>) =>
            /\ inv[i].result[1].warnings = Values(BuildOverTest(i))
            /\ \A k \in Conflicts(i) :
                  /\ BuildScan(i).warnings[k] \in DOMAIN inv[i].result[1].warnings
                  /\ BagSize(inv[i].result[1].warnings)
                        = Cardinality(DOMAIN BuildScan(i).warnings \cup DOMAIN TestScan(i).warnings)

\* Build and tests reported one identity with different bodies, and the tests' body
\* is not among the returned warnings
C20_Witness ==
    \E i \in Invocations :
        /\ BothScanned(i) /\ inv[i].pc = "done" /\ inv[i].test_stdout # << >>
        /\ \E k \in Conflicts(i) :
              TestScan(i).warnings[k] \notin DOMAIN inv[i].result[1].warnings

=============================================================================
